---- MODULE Spec2Model ----
(***************************************************************************)
(* Model of src/photo_sampler/sample_frames.py: main() driving             *)
(* sample_frames(), the sampling loop and format_timestamp().              *)
(*                                                                         *)
(* Real numbers (the frame rates, the frame interval, the running          *)
(* threshold and the timestamp) are exact rationals <<num, den>> with      *)
(* den > 0.  Binary floating point rounding is not modelled.               *)
(* KeyboardInterrupt is delivered while the sampling loop runs.            *)
(***************************************************************************)
EXTENDS Integers, Sequences, FiniteSets

VARIABLES
    pc,                 \* position of the single thread of control
    args_fps,           \* args.fps, a rational
    cap,                \* "none" | "closed" | "open" | "released"
    video_fps,          \* cap.get(CAP_PROP_FPS), an integer-valued rate
    total_frames,       \* int(cap.get(CAP_PROP_FRAME_COUNT))
    frame_interval,     \* a rational
    frame_count,        \* index of the next decoded frame
    extracted_count,
    next_extract_frame, \* a rational
    kept,               \* indices of the frames that took the keep branch
    files,              \* names of the files cv2.imwrite wrote
    sink_ok,            \* number of cv2.imwrite calls that returned True
    end_cause,          \* why cap.read() returned ret = False
    outcome,            \* the path by which the process ended
    exit_code           \* <<>> while running, <<status>> once exited

vars == <<pc, args_fps, cap, video_fps, total_frames, frame_interval,
          frame_count, extracted_count, next_extract_frame, kept, files,
          sink_ok, end_cause, outcome, exit_code>>

------------------------------------------------------------------------------
(* Bounds of the model *)

MaxFrames == 7

MaxTotal == 2

(* Program constants *)

SecondsPerMinute == 60

MillisPerSecond == 1000

ExitFailure == 1

ExitUsage == 2

ExitInterrupt == 130

(* Input values *)

\* values of --fps
TargetRates ==
    { <<-1, 1>>, <<0, 1>>, <<1, 2>>, <<1, 1>>, <<2, 1>>, <<3, 1>>,
      <<2500, 3>>, <<1000, 1>>, <<2000, 1>> }

\* values of CAP_PROP_FPS
SourceRates == { -2, 0, 2, 3, 5, 24, 999, 1000, 1250, 2000 }

------------------------------------------------------------------------------
(* Rational arithmetic *)

Rat(n, d) == IF d > 0 THEN <<n, d>> ELSE <<-n, -d>>

RAdd(a, b) ==
    IF a[2] = b[2] THEN <<a[1] + b[1], a[2]>>
    ELSE <<a[1] * b[2] + b[1] * a[2], a[2] * b[2]>>

\* integer i >= rational r
IntGeq(i, r) == i * r[2] >= r[1]

RLeq(a, b) == a[1] * b[2] <= b[1] * a[2]

REq(a, b) == a[1] * b[2] = b[1] * a[2]

RFloor(r) == r[1] \div r[2]

RCeil(r) == -((-r[1]) \div r[2])

------------------------------------------------------------------------------
(* format_timestamp *)

FormatTimestampCentis(seconds) ==
    << seconds[1] \div (SecondsPerMinute * seconds[2]),
       (seconds[1] % (SecondsPerMinute * seconds[2])) \div seconds[2],
       ((seconds[1] % seconds[2]) * 100) \div seconds[2] >>

\* <<minutes, secs, millis>>, the three fields of the filename
FormatTimestamp(seconds) ==
    << seconds[1] \div (SecondsPerMinute * seconds[2]),
       (seconds[1] % (SecondsPerMinute * seconds[2])) \div seconds[2],
       ((seconds[1] % seconds[2]) * MillisPerSecond) \div seconds[2] >>

\* frame_count / video_fps, for video_fps # 0
TimestampSec(fc, vfps) == Rat(fc, vfps)

OutputName(fc, vfps) == FormatTimestamp(TimestampSec(fc, vfps))

------------------------------------------------------------------------------
(* The scheduler *)

\* video_fps / target_fps if target_fps > 0 else video_fps
FrameInterval(vfps, tfps) ==
    IF tfps[1] > 0 THEN Rat(vfps * tfps[2], tfps[1]) ELSE <<vfps, 1>>

ShouldKeepStrict(fc, threshold) == fc * threshold[2] > threshold[1]

ShouldKeepFloor(fc, threshold) == fc >= RFloor(threshold)

\* frame_count >= next_extract_frame
ShouldKeep(fc, threshold) == IntGeq(fc, threshold)

AdvanceByOne(threshold, interval) == RAdd(threshold, <<1, 1>>)

\* next_extract_frame += frame_interval
Advance(threshold, interval) == RAdd(threshold, interval)

NextFrameCountOnSkipOnly(fc, keep) == IF keep THEN fc ELSE fc + 1

\* frame_count += 1, whether the frame was kept or not
NextFrameCount(fc, keep) == fc + 1

------------------------------------------------------------------------------
(* main's exit status after sample_frames returned *)

MainStatusNoZeroCheck(extracted) == 0

MainStatusOffByOne(extracted) == IF extracted <= 1 THEN ExitFailure ELSE 0

MainStatus(extracted) == IF extracted = 0 THEN ExitFailure ELSE 0

------------------------------------------------------------------------------
Init ==
    /\ pc = "parse_args"
    /\ args_fps \in TargetRates
    /\ cap = "none"
    /\ video_fps = 0
    /\ total_frames = 0
    /\ frame_interval = <<0, 1>>
    /\ frame_count = 0
    /\ extracted_count = 0
    /\ next_extract_frame = <<0, 1>>
    /\ kept = <<>>
    /\ files = {}
    /\ sink_ok = 0
    /\ end_cause = "none"
    /\ outcome = "running"
    /\ exit_code = <<>>

Exit(status, how) ==
    /\ pc' = "exited"
    /\ exit_code' = <<status>>
    /\ outcome' = how

\* parser.parse_args() rejects the command line (a malformed --resize makes
\* parse_resize raise ArgumentTypeError): argparse exits with status 2
ParseError ==
    /\ pc = "parse_args"
    /\ Exit(ExitUsage, "usage_error")
    /\ UNCHANGED <<args_fps, cap, video_fps, total_frames, frame_interval,
                   frame_count, extracted_count, next_extract_frame, kept,
                   files, sink_ok, end_cause>>

ParseOK ==
    /\ pc = "parse_args"
    /\ pc' = "check_file"
    /\ UNCHANGED <<args_fps, cap, video_fps, total_frames, frame_interval,
                   frame_count, extracted_count, next_extract_frame, kept,
                   files, sink_ok, end_cause, outcome, exit_code>>

\* if not args.video.exists(): sys.exit(1)
FileMissing ==
    /\ pc = "check_file"
    /\ Exit(ExitFailure, "missing_file")
    /\ UNCHANGED <<args_fps, cap, video_fps, total_frames, frame_interval,
                   frame_count, extracted_count, next_extract_frame, kept,
                   files, sink_ok, end_cause>>

FileFound ==
    /\ pc = "check_file"
    /\ pc' = "check_fps"
    /\ UNCHANGED <<args_fps, cap, video_fps, total_frames, frame_interval,
                   frame_count, extracted_count, next_extract_frame, kept,
                   files, sink_ok, end_cause, outcome, exit_code>>

\* if args.fps <= 0: sys.exit(1)
FpsRejected ==
    /\ pc = "check_fps"
    /\ args_fps[1] <= 0
    /\ Exit(ExitFailure, "bad_fps")
    /\ UNCHANGED <<args_fps, cap, video_fps, total_frames, frame_interval,
                   frame_count, extracted_count, next_extract_frame, kept,
                   files, sink_ok, end_cause>>

FpsAccepted ==
    /\ pc = "check_fps"
    /\ ~(args_fps[1] <= 0)
    /\ pc' = "open"
    /\ UNCHANGED <<args_fps, cap, video_fps, total_frames, frame_interval,
                   frame_count, extracted_count, next_extract_frame, kept,
                   files, sink_ok, end_cause, outcome, exit_code>>

\* cap.isOpened() is False: RuntimeError, caught by main, sys.exit(1)
OpenFails ==
    /\ pc = "open"
    /\ cap' = "closed"
    /\ Exit(ExitFailure, "open_failed")
    /\ UNCHANGED <<args_fps, video_fps, total_frames, frame_interval,
                   frame_count, extracted_count, next_extract_frame, kept,
                   files, sink_ok, end_cause>>

\* the stream opens; the metadata is read and the interval computed
OpenOK ==
    /\ pc = "open"
    /\ \E vfps \in SourceRates, tf \in 0..MaxTotal :
          /\ video_fps' = vfps
          /\ total_frames' = tf
          /\ frame_interval' = FrameInterval(vfps, args_fps)
    /\ cap' = "open"
    /\ pc' = "mkdir"
    /\ UNCHANGED <<args_fps, frame_count, extracted_count,
                   next_extract_frame, kept, files, sink_ok, end_cause,
                   outcome, exit_code>>

\* output_dir.mkdir raises OSError, which main does not catch
MkdirFails ==
    /\ pc = "mkdir"
    /\ Exit(ExitFailure, "mkdir_failed")
    /\ UNCHANGED <<args_fps, cap, video_fps, total_frames, frame_interval,
                   frame_count, extracted_count, next_extract_frame, kept,
                   files, sink_ok, end_cause>>

MkdirOK ==
    /\ pc = "mkdir"
    /\ frame_count' = 0
    /\ extracted_count' = 0
    /\ next_extract_frame' = <<0, 1>>
    /\ pc' = "loop"
    /\ UNCHANGED <<args_fps, cap, video_fps, total_frames, frame_interval,
                   kept, files, sink_ok, end_cause, outcome, exit_code>>

\* one iteration: cap.read() delivers a frame and the keep branch is taken;
\* cv2.imwrite returns True or False and its result is not looked at
KeepFrame ==
    /\ pc = "loop"
    /\ frame_count < MaxFrames
    /\ ShouldKeep(frame_count, next_extract_frame)
    /\ video_fps # 0
    /\ \E written \in BOOLEAN :
          /\ files' = IF written
                      THEN files \cup {OutputName(frame_count, video_fps)}
                      ELSE files
          /\ sink_ok' = IF written THEN sink_ok + 1 ELSE sink_ok
    /\ kept' = Append(kept, frame_count)
    /\ extracted_count' = extracted_count + 1
    /\ next_extract_frame' = Advance(next_extract_frame, frame_interval)
    /\ frame_count' = NextFrameCount(frame_count, TRUE)
    /\ UNCHANGED <<pc, args_fps, cap, video_fps, total_frames,
                   frame_interval, end_cause, outcome, exit_code>>

\* the keep branch with video_fps = 0: frame_count / video_fps raises
\* ZeroDivisionError, which main does not catch
TimestampError ==
    /\ pc = "loop"
    /\ frame_count < MaxFrames
    /\ ShouldKeep(frame_count, next_extract_frame)
    /\ video_fps = 0
    /\ Exit(ExitFailure, "zero_division")
    /\ UNCHANGED <<args_fps, cap, video_fps, total_frames, frame_interval,
                   frame_count, extracted_count, next_extract_frame, kept,
                   files, sink_ok, end_cause>>

\* one iteration: cap.read() delivers a frame and it is skipped
SkipFrame ==
    /\ pc = "loop"
    /\ frame_count < MaxFrames
    /\ ~ShouldKeep(frame_count, next_extract_frame)
    /\ frame_count' = NextFrameCount(frame_count, FALSE)
    /\ UNCHANGED <<pc, args_fps, cap, video_fps, total_frames,
                   frame_interval, extracted_count, next_extract_frame,
                   kept, files, sink_ok, end_cause, outcome, exit_code>>

\* cap.read() returns ret = False, at the end of the stream or because the
\* decoder failed: break
StreamEnds ==
    /\ pc = "loop"
    /\ \E cause \in {"end_of_stream", "decode_failure"} : end_cause' = cause
    /\ pc' = "release"
    /\ UNCHANGED <<args_fps, cap, video_fps, total_frames, frame_interval,
                   frame_count, extracted_count, next_extract_frame, kept,
                   files, sink_ok, outcome, exit_code>>

\* KeyboardInterrupt raised while the loop runs; main: sys.exit(130)
Interrupt ==
    /\ pc = "loop"
    /\ Exit(ExitInterrupt, "interrupted")
    /\ UNCHANGED <<args_fps, cap, video_fps, total_frames, frame_interval,
                   frame_count, extracted_count, next_extract_frame, kept,
                   files, sink_ok, end_cause>>

\* cap.release(); return extracted_count
Release ==
    /\ pc = "release"
    /\ cap' = "released"
    /\ pc' = "returned"
    /\ UNCHANGED <<args_fps, video_fps, total_frames, frame_interval,
                   frame_count, extracted_count, next_extract_frame, kept,
                   files, sink_ok, end_cause, outcome, exit_code>>

\* main after the call: if extracted == 0: sys.exit(1); else fall off the end
MainFinish ==
    /\ pc = "returned"
    /\ Exit(MainStatus(extracted_count),
            IF extracted_count = 0 THEN "zero_frames" ELSE "success")
    /\ UNCHANGED <<args_fps, cap, video_fps, total_frames, frame_interval,
                   frame_count, extracted_count, next_extract_frame, kept,
                   files, sink_ok, end_cause>>

Next ==
    \/ ParseError
    \/ ParseOK
    \/ FileMissing
    \/ FileFound
    \/ FpsRejected
    \/ FpsAccepted
    \/ OpenFails
    \/ OpenOK
    \/ MkdirFails
    \/ MkdirOK
    \/ KeepFrame
    \/ TimestampError
    \/ SkipFrame
    \/ StreamEnds
    \/ Interrupt
    \/ Release
    \/ MainFinish

Spec == Init /\ [][Next]_vars

------------------------------------------------------------------------------
(* Properties *)

\* a completed iteration of the sampling loop
LoopIteration == pc = "loop" /\ pc' = "loop"

\* sample_frames has returned its count to main
Returned == pc = "returned"

\* the names format_timestamp gave to the kept frames
KeptNames == { OutputName(kept[k], video_fps) : k \in 1..Len(kept) }

StrictlyIncreasing(s) == \A j, k \in 1..Len(s) : j < k => s[j] < s[k]

PositiveRates == video_fps > 0 /\ args_fps[1] > 0

\* C1: with sourceFrameRate > 0 and 0 < targetRate <= sourceFrameRate, the
\* count sample_frames returns over N decoded frames is floor(N / frameInterval)
\* or floor(N / frameInterval) + 1.
C1_KeptCountBound ==
    (Returned /\ PositiveRates /\ RLeq(args_fps, <<video_fps, 1>>))
        => LET q == (frame_count * frame_interval[2]) \div frame_interval[1]
           IN  extracted_count \in {q, q + 1}

C1_Witness ==
    /\ Returned /\ PositiveRates /\ RLeq(args_fps, <<video_fps, 1>>)
    /\ frame_interval[2] > 1
    /\ extracted_count >= 3
    /\ extracted_count =
          ((frame_count * frame_interval[2]) \div frame_interval[1]) + 1

\* C2: in every loop iteration frame i is kept exactly when i >= the threshold
\* held at that moment (as reals); a keep advances the threshold by exactly
\* frameInterval and the count by one, a skip leaves both unchanged, the frame
\* index advances by one either way, and the kept indices strictly increase.
C2_DecisionRule ==
    /\ [][LoopIteration =>
            /\ frame_count' = frame_count + 1
            /\ IF IntGeq(frame_count, next_extract_frame)
               THEN /\ kept' = Append(kept, frame_count)
                    /\ extracted_count' = extracted_count + 1
                    /\ REq(next_extract_frame',
                           RAdd(next_extract_frame, frame_interval))
               ELSE UNCHANGED <<kept, extracted_count, next_extract_frame>>
         ]_vars
    /\ [](StrictlyIncreasing(kept))

C2_Witness ==
    /\ pc = "loop"
    /\ frame_interval[2] > 1
    /\ Len(kept) >= 3
    /\ frame_count > kept[Len(kept)] + 1

\* C3: on every exit after the stream was opened, the decode handle has been
\* released.
C3_ReleasedOnEveryExit == pc = "exited" => cap # "open"

\* C4: the count sample_frames returns equals the number of writes that
\* succeeded.
C4_CountEqualsSuccessfulWrites == Returned => extracted_count = sink_ok

\* C5: with sourceFrameRate <= 0 and targetRate > 0, frameInterval is
\* sourceFrameRate / targetRate and the run ends normally having kept every
\* decoded frame.
C5_NonPositiveRateKeepsEveryFrame ==
    (/\ cap \in {"open", "released"}
     /\ pc \in {"loop", "release", "returned", "exited"}
     /\ video_fps <= 0
     /\ outcome \notin {"interrupted", "mkdir_failed"})
        => /\ REq(frame_interval, Rat(video_fps * args_fps[2], args_fps[1]))
           /\ extracted_count = frame_count
           /\ outcome \in {"running", "zero_frames", "success"}

C9_KeptIffAtLeastFloor ==
    [][(LoopIteration /\ PositiveRates) =>
          ((kept' # kept) <=> frame_count >= RFloor(next_extract_frame))]_vars

\* C9 amended: with positive rates, a frame is kept iff its index is
\* >= ceiling(nextEligibleIndex), that is >= the real threshold itself.
C9_KeptIffAtLeastCeiling ==
    [][(LoopIteration /\ PositiveRates) =>
          ((kept' # kept) <=> frame_count >= RCeil(next_extract_frame))]_vars

C9_Witness ==
    /\ pc = "loop"
    /\ PositiveRates
    /\ next_extract_frame[1] % next_extract_frame[2] # 0
    /\ frame_count = RCeil(next_extract_frame)
    /\ Len(kept) >= 2

\* C10 as stated: extractedCount equals the number of kept frames and never
\* exceeds the totalFrameCount of the metadata.
C10_CountWithinMetadataTotal ==
    /\ extracted_count = Len(kept)
    /\ extracted_count <= total_frames

\* C10 amended: extractedCount equals the number of kept frames and never
\* exceeds the number of frames decoded so far.
C10_CountWithinDecoded ==
    /\ extracted_count = Len(kept)
    /\ extracted_count <= frame_count

C10_Witness ==
    /\ pc = "loop"
    /\ extracted_count = frame_count
    /\ extracted_count > total_frames
    /\ extracted_count >= 3

====
